---- MODULE Spec2Model ----
(***************************************************************************)
(* MinimizeNinja (src/minimize_ninja/cli.py): the `slim` and `autopdf`     *)
(* commands, slim_file's pipeline over the images of a Keynote file, and   *)
(* main's crash handler.                                                   *)
(*                                                                         *)
(* Numbers: byte sizes are naturals; the resize factor is kept in tenths   *)
(* (2.0 is 20); a reduction is kept in tenths of a percent, as the         *)
(* "{reduction:.1f} %" of the log lines prints it.                         *)
(* Python dicts are functions whose domain is the set of keys present.     *)
(* Strings that the code searches (file suffixes) are sequences of         *)
(* one-character strings.                                                  *)
(***************************************************************************)
EXTENDS Integers, Sequences, FiniteSets, TLC

\* ---------------------------------------------------------------- bounds
\* At most this many images in the image index of a Keynote file.
MaxImages == 2
\* Image files and codec outputs are 1..MaxSize bytes.
MaxSize == 2
\* At most this many objects in the metadata YAML files of a Keynote file.
MaxObjects == 2

\* ------------------------------------------------------ program constants
DefaultResizeFactor == 20
DefaultJpegCompression == 85
ResizeWarnBelow == 20
JpegWarnBelow == 80

\* ---------------------------------------------------------------- helpers
Min(a, b) == IF a < b THEN a ELSE b

\* `sub in s` of two Python strings.
Contains(sub, s) ==
    \E k \in 1..(Len(s) - Len(sub) + 1) : SubSeq(s, k, k + Len(sub) - 1) = sub

\* dict.get(key, default)
Get(d, key, default) == IF key \in DOMAIN d THEN d[key] ELSE default

\* {} of Python
EmptyDict == <<>>

\* round(num / den) to the nearest integer, ties to even (den > 0): what the
\* ".1f" format does to the value it is given.
RoundHalfEven(num, den) ==
    LET q == num \div den
        r == num % den
    IN  IF 2 * r < den THEN q
        ELSE IF 2 * r > den THEN q + 1
        ELSE IF q % 2 = 0 THEN q ELSE q + 1

\* (1.0 - (after / before)) * 100.0, printed with one decimal: in tenths of a
\* percent. Python raises ZeroDivisionError when before is 0; the callers
\* test that first.
Reduction(after, before) == RoundHalfEven((before - after) * 1000, before)

\* The outcome of one size summary of slim_file: <<>> when the division
\* raises ZeroDivisionError, else the logged totals and reduction.
Summarize(before, after) ==
    IF before = 0 THEN <<>>
    ELSE << [before |-> before, after |-> after,
             reduction |-> Reduction(after, before)] >>

\* ------------------------------------------------------------ file suffixes
SuffixTiff == <<".", "t", "i", "f", "f">>
SuffixPng == <<".", "p", "n", "g">>
SuffixJpeg == <<".", "j", "p", "e", "g">>
Suffixes == {SuffixTiff, SuffixPng, SuffixJpeg}

\* "tif" in image.filename.suffix
IsTiff(image) == Contains(<<"t", "i", "f">>, image.suffix)
\* "png" in image.filename.suffix
IsPng(image) == Contains(<<"p", "n", "g">>, image.suffix)

\* ------------------------------------------------- the Keynote file (input)
SeqsUpTo(S, n) == UNION {[1..k -> S] : k \in 0..n}

\* One image of the package as Metadata.iwa.yaml lists it: its file suffix and
\* its size in bytes. The identifier of an image is its position in the index
\* (1, 2, ...), so 0 is the identifier of no image.
ImageEntries == [suffix : Suffixes, size : 1..MaxSize]

\* Identifiers that objects of the metadata YAML files name; 3 is in no index
\* of the sample images.
ObjIds == {1, 2, 3}

ImageArchive(data) == ("_pbtype" :> "TSD.ImageArchive") @@ data
SlideStyleArchive(props) == ("_pbtype" :> "KN.SlideStyleArchive") @@ props
ImageFill(image) == "slideProperties" :> ("fill" :> ("image" :> image))

Objects ==
    {ImageArchive("data" :> ("identifier" :> id)) : id \in ObjIds}
    \cup {ImageArchive(EmptyDict)}
    \cup {SlideStyleArchive(ImageFill("imagedata" :> ("identifier" :> id))) :
            id \in ObjIds}
    \cup {SlideStyleArchive(ImageFill(EmptyDict)),
          SlideStyleArchive("slideProperties" :> ("fill" :> ("color" :> 1))),
          SlideStyleArchive(EmptyDict),
          "_pbtype" :> "KN.SlideArchive"}

YamlFile(chunks) == [yaml |-> [chunks |-> chunks]]
Chunk(archives) == [archives |-> archives]
Archive(objects) == [objects |-> objects]

\* The ways the objects of a package are spread over files, chunks and
\* archives.
Layouts == {"archive", "archives", "chunks", "files"}
Layout(objs, how) ==
    CASE how = "archive" -> << YamlFile(<< Chunk(<< Archive(objs) >>) >>) >>
      [] how = "archives" ->
            << YamlFile(<< Chunk([k \in 1..Len(objs) |-> Archive(<< objs[k] >>)]) >>) >>
      [] how = "chunks" ->
            << YamlFile([k \in 1..Len(objs) |->
                            Chunk(<< Archive(<< objs[k] >>) >>)]) >>
      [] OTHER ->
            [k \in 1..Len(objs) |->
                YamlFile(<< Chunk(<< Archive(<< objs[k] >>) >>) >>)]

SampleImages ==
    << [suffix |-> SuffixTiff, size |-> 2], [suffix |-> SuffixPng, size |-> 2] >>
SampleYaml ==
    Layout(<< ImageArchive("data" :> ("identifier" :> 1)),
              SlideStyleArchive(ImageFill("imagedata" :> ("identifier" :> 3))) >>,
           "files")

Keynote(images, yaml) == [images |-> images, yaml |-> yaml]

\* ------------------------------------------------------ command-line input
Qualities == -1..4
ResizeFactors == {15, DefaultResizeFactor}
JpegCompressions == {75, DefaultJpegCompression}

\* slim_file's parameters (lines 26-36).
Args(q, pdf, stages, keep, rf, jc, png, suffix) ==
    [quality |-> q, export_pdf |-> pdf, pdf_all_stages |-> stages,
     keep_unpacked |-> keep, resize_factor |-> rf, jpeg_compression |-> jc,
     png_convert |-> png, pdf_suffix |-> suffix]

\* What `slim` hands to slim_file (lines 334-346): every option of the
\* command line, and no pdf_suffix.
SlimArgs ==
    {Args(q, pdf, stages, keep, rf, jc, png, "") :
        q \in Qualities, pdf \in BOOLEAN, stages \in BOOLEAN, keep \in BOOLEAN,
        rf \in ResizeFactors, jc \in JpegCompressions, png \in BOOLEAN}

\* `slim -q N file`, every other option at its default.
PresetArgs ==
    {Args(q, FALSE, FALSE, FALSE, DefaultResizeFactor, DefaultJpegCompression,
          FALSE, "") : q \in 0..3}

\* The three slim_file calls of `autopdf` (lines 357-366).
AutoPdfCalls(stages) ==
    [k \in 1..3 |->
        Args(k - 1, TRUE, stages, FALSE, DefaultResizeFactor,
             DefaultJpegCompression, FALSE,
             CASE k = 1 -> "_q0" [] k = 2 -> "_q1" [] OTHER -> "_q2")]

\* The runs that are explored: every option combination on the sample file,
\* every image index under each preset, every metadata layout under the
\* defaults, and autopdf.
Inputs ==
    {[command |-> "slim", todo |-> << a >>,
      keynote |-> Keynote(SampleImages, SampleYaml)] : a \in SlimArgs}
    \cup {[command |-> "slim", todo |-> << a >>,
           keynote |-> Keynote(images, SampleYaml)] :
            a \in PresetArgs, images \in SeqsUpTo(ImageEntries, MaxImages)}
    \cup {[command |-> "slim",
           todo |-> << Args(0, FALSE, FALSE, FALSE, DefaultResizeFactor,
                            DefaultJpegCompression, FALSE, "") >>,
           keynote |-> Keynote(SampleImages, Layout(objs, how))] :
            objs \in SeqsUpTo(Objects, MaxObjects), how \in Layouts}
    \cup {[command |-> "autopdf", todo |-> AutoPdfCalls(stages),
           keynote |-> Keynote(images, SampleYaml)] :
            stages \in BOOLEAN, images \in {SampleImages, << >>}}

\* --------------------------------------------- minimize_ninja.keynote images
\* The image object that KeynoteFile.images_dict holds for one entry of the
\* index: no stage has run, so every size is the file's size, and nothing
\* refers to it yet.
NewImage(entry) ==
    [suffix |-> entry.suffix, size_original |-> entry.size,
     size_converted |-> entry.size, size_resized |-> entry.size,
     size_optimized |-> entry.size, references |-> {}]

\* kf.images_dict: identifier -> image, in the order of the index.
ImagesDict(keynote) == [id \in 1..Len(keynote.images) |-> NewImage(keynote.images[id])]

\* image.convert(...): the file is re-encoded as JPEG into `encoded` bytes; a
\* result that is not smaller is dropped and the image stays as it was.
Convert(image, encoded) ==
    IF encoded < image.size_original
    THEN [image EXCEPT !.suffix = SuffixJpeg, !.size_converted = encoded]
    ELSE [image EXCEPT !.size_converted = image.size_original]

\* image.resize(max_ratio_factor=...): the image is scaled down to
\* max_ratio_factor times its displayed size, giving `encoded` bytes; it never
\* grows.
Resize(image, max_ratio_factor, encoded) ==
    [image EXCEPT !.size_resized = Min(encoded, image.size_converted)]

\* image.optimize(jpeg_compression=...): the image is re-encoded at the given
\* quality into `encoded` bytes; a larger result is dropped.
Optimize(image, jpeg_compression, encoded) ==
    [image EXCEPT !.size_optimized = Min(encoded, image.size_resized)]

\* image.add_slide_reference(yaml_file, object)
add_slide_reference(image, file, path) ==
    [image EXCEPT !.references =
        @ \cup {[file |-> file, path |-> path, kind |-> "slide"]}]

\* image.add_slide_style_reference(yaml_file, object)
add_slide_style_reference(image, file, path) ==
    [image EXCEPT !.references =
        @ \cup {[file |-> file, path |-> path, kind |-> "style"]}]

\* ------------------------------------------------------- slim_file: presets
\* Faulty variant of Preset: case 3 repeats the settings of case 2.
PresetThreeAsTwo(quality, settings) ==
    CASE quality = 1 ->
            [resize_factor |-> 20, jpeg_compression |-> 80,
             png_convert |-> TRUE, export_pdf |-> TRUE]
      [] quality \in {2, 3} ->
            [resize_factor |-> 15, jpeg_compression |-> 75,
             png_convert |-> TRUE, export_pdf |-> TRUE]
      [] OTHER -> settings

\* match quality (lines 44-62) on the four settings it may overwrite.
Preset(quality, settings) ==
    CASE quality = 1 ->
            [resize_factor |-> 20, jpeg_compression |-> 80,
             png_convert |-> TRUE, export_pdf |-> TRUE]
      [] quality = 2 ->
            [resize_factor |-> 15, jpeg_compression |-> 75,
             png_convert |-> TRUE, export_pdf |-> TRUE]
      [] quality = 3 ->
            [resize_factor |-> 10, jpeg_compression |-> 70,
             png_convert |-> TRUE, export_pdf |-> TRUE]
      [] OTHER -> settings

\* Faulty variant of ResizeWarning: warns at the threshold too.
ResizeWarningInclusive(factor) == factor <= ResizeWarnBelow

\* if resize_factor < 2.0 (line 64)
ResizeWarning(factor) == factor < ResizeWarnBelow
\* if jpeg_compression < 80 (line 75)
JpegWarning(compression) == compression < JpegWarnBelow

\* ---------------------------------------------------- slim_file: image lists
RECURSIVE SelectIds(_, _, _)
\* [image for id, image in images_dict.items() if <keep>], as identifiers.
SelectIds(dict, keep, from) ==
    IF from > Len(dict) THEN << >>
    ELSE (IF from \in keep THEN << from >> ELSE << >>)
         \o SelectIds(dict, keep, from + 1)

\* tiffies (lines 95-97)
Tiffies(dict) == SelectIds(dict, {id \in DOMAIN dict : IsTiff(dict[id])}, 1)
\* pngs (lines 98-100)
Pngs(dict) == SelectIds(dict, {id \in DOMAIN dict : IsPng(dict[id])}, 1)
\* Faulty variant of ConvertPngs: the png_convert flag is not consulted.
ConvertPngsAlways(list, flag) == list # << >>
\* if pngs and png_convert (line 131)
ConvertPngs(list, flag) == list # << >> /\ flag
\* Faulty variant of ResizeTargets: images nothing refers to are left out.
ResizeTargetsReferenced(dict) ==
    SelectIds(dict, {id \in DOMAIN dict : dict[id].references # {}}, 1)
\* images_dict.items() of the resize loop (line 193)
ResizeTargets(dict) == SelectIds(dict, DOMAIN dict, 1)
\* Faulty variant of OptimizeTargets: images nothing refers to are left out.
OptimizeTargetsReferenced(dict) ==
    SelectIds(dict, {id \in DOMAIN dict : dict[id].references # {}}, 1)
\* images_dict.items() of the optimize loop (line 215)
OptimizeTargets(dict) == SelectIds(dict, DOMAIN dict, 1)

RECURSIVE SumSizes(_, _, _, _)
\* sum([image.<field> for image in <ids>])
SumSizes(dict, ids, field, from) ==
    IF from > Len(ids) THEN 0
    ELSE dict[ids[from]][field] + SumSizes(dict, ids, field, from + 1)

\* ------------------------------------------------ slim_file: reference scan
\* Faulty variant of ImageIdentifier: the default is 1, the identifier of an
\* image, instead of 0.
ImageIdentifierDefaultOne(object) ==
    Get(Get(object, "data", EmptyDict), "identifier", 1)

\* object.get("data", {}).get("identifier", 0) (line 174)
ImageIdentifier(object) == Get(Get(object, "data", EmptyDict), "identifier", 0)

\* "image" in object.get("slideProperties", {}).get("fill", {}) (line 180)
HasImageFill(object) ==
    "image" \in DOMAIN Get(Get(object, "slideProperties", EmptyDict), "fill", EmptyDict)

\* lines 181-187
StyleIdentifier(object) ==
    Get(Get(Get(Get(Get(object, "slideProperties", EmptyDict), "fill", EmptyDict),
                "image", EmptyDict), "imagedata", EmptyDict), "identifier", 0)

\* Faulty variant of ScanObject: the style branch calls add_slide_reference.
ScanObjectOneKind(dict, file, path, object) ==
    LET id1 == Get(Get(object, "data", EmptyDict), "identifier", 0)
        d1 == IF object["_pbtype"] = "TSD.ImageArchive" /\ id1 \in DOMAIN dict
              THEN [dict EXCEPT ![id1] = add_slide_reference(@, file, path)]
              ELSE dict
        fill == Get(Get(object, "slideProperties", EmptyDict), "fill", EmptyDict)
        id2 == Get(Get(Get(fill, "image", EmptyDict), "imagedata", EmptyDict),
                   "identifier", 0)
    IN  IF /\ object["_pbtype"] = "KN.SlideStyleArchive"
           /\ "image" \in DOMAIN fill
           /\ id2 \in DOMAIN d1
        THEN [d1 EXCEPT ![id2] = add_slide_reference(@, file, path)]
        ELSE d1

\* The body of the innermost loop (lines 173-191) on one object.
ScanObject(dict, file, path, object) ==
    LET id1 == ImageIdentifier(object)
        d1 == IF object["_pbtype"] = "TSD.ImageArchive" /\ id1 \in DOMAIN dict
              THEN [dict EXCEPT ![id1] = add_slide_reference(@, file, path)]
              ELSE dict
        id2 == StyleIdentifier(object)
    IN  IF /\ object["_pbtype"] = "KN.SlideStyleArchive"
           /\ HasImageFill(object)
           /\ id2 \in DOMAIN d1
        THEN [d1 EXCEPT ![id2] = add_slide_style_reference(@, file, path)]
        ELSE d1

\* The objects of one YAML file in the order the three inner loops (lines
\* 170-172) reach them, each as <<chunk, archive, object>> positions.
RECURSIVE PathsFrom(_, _, _, _)
PathsFrom(yaml, c, a, o) ==
    IF c > Len(yaml.chunks) THEN << >>
    ELSE IF a > Len(yaml.chunks[c].archives) THEN PathsFrom(yaml, c + 1, 1, 1)
    ELSE IF o > Len(yaml.chunks[c].archives[a].objects)
         THEN PathsFrom(yaml, c, a + 1, 1)
    ELSE << <<c, a, o>> >> \o PathsFrom(yaml, c, a, o + 1)

ObjectAt(yaml, path) == yaml.chunks[path[1]].archives[path[2]].objects[path[3]]

RECURSIVE ScanPaths(_, _, _, _, _)
ScanPaths(dict, file, yaml, paths, from) ==
    IF from > Len(paths) THEN dict
    ELSE ScanPaths(ScanObject(dict, file, paths[from], ObjectAt(yaml, paths[from])),
                   file, yaml, paths, from + 1)

\* One iteration of `for yaml_file in all_yaml` (lines 169-191).
ScanYaml(dict, file, yaml) == ScanPaths(dict, file, yaml, PathsFrom(yaml, 1, 1, 1), 1)

\* Faulty variant of ScanFinished: the loop is left after the first file.
ScanFinishedAfterFirst(file, yamls) == file > Min(1, Len(yamls))

\* The loop over all_yaml has run through.
ScanFinished(file, yamls) == file > Len(yamls)

\* ------------------------------------------------ slim_file: size summaries
AllIds(dict) == SelectIds(dict, DOMAIN dict, 1)

\* sizes_original, sizes_converted of the TIFF summary (lines 114-115)
TiffTotals(dict, list) ==
    [before |-> SumSizes(dict, list, "size_original", 1),
     after |-> SumSizes(dict, list, "size_converted", 1)]
\* sizes_original, sizes_converted of the PNG summary (lines 144-145)
PngTotals(dict, list) ==
    [before |-> SumSizes(dict, list, "size_original", 1),
     after |-> SumSizes(dict, list, "size_converted", 1)]
\* sizes_converted, sizes_resized of the resize summary (lines 196-197)
ResizeTotals(dict) ==
    [before |-> SumSizes(dict, AllIds(dict), "size_converted", 1),
     after |-> SumSizes(dict, AllIds(dict), "size_resized", 1)]
\* sizes_resized, sizes_optimized of the optimize summary (lines 218-219)
OptimizeTotals(dict) ==
    [before |-> SumSizes(dict, AllIds(dict), "size_resized", 1),
     after |-> SumSizes(dict, AllIds(dict), "size_optimized", 1)]

\* -------------------------------------------------------------------- state
VARIABLES
    command,          \* "slim" or "autopdf"
    keynote,          \* the Keynote file on disk: its image index and YAML
    todo,             \* the slim_file calls the command has still to make
    pc,               \* where the program is
    quality, export_pdf, pdf_all_stages, keep_unpacked,
    resize_factor, jpeg_compression, png_convert, pdf_suffix,
                      \* slim_file's parameters, as the preset leaves them
    images_dict,      \* kf.images_dict
    tiffies, pngs,    \* the two lists of lines 95-100, as identifiers
    all_yaml,         \* the TiffyYaml files of line 164
    i,                \* position of the running loop in its list
    warnings,         \* logger.warning calls of this slim_file call
    reports,          \* the size summaries logged by this slim_file call
    saves,            \* metadata.save() calls of this slim_file call
    calls,            \* per image, the stages invoked on it, in order
    visited,          \* the objects the scan has looked at
    files,            \* unpacked directory, repacked file, exported PDFs
    error             \* the exception that reached main, if one did

locals ==
    << quality, export_pdf, pdf_all_stages, keep_unpacked,
       resize_factor, jpeg_compression, png_convert, pdf_suffix >>
input == << command, keynote >>
lists == << tiffies, pngs, all_yaml >>
vars ==
    << command, keynote, todo, pc, quality, export_pdf, pdf_all_stages,
       keep_unpacked, resize_factor, jpeg_compression, png_convert, pdf_suffix,
       images_dict, tiffies, pngs, all_yaml, i, warnings, reports, saves, calls,
       visited, files, error >>

NoError == [kind |-> "none", image |-> 0]

\* slim_file is called with `args`: its parameters are bound and nothing of
\* the call has happened yet.
Call(args) ==
    /\ pc' = "slim_file"
    /\ quality' = args.quality
    /\ export_pdf' = args.export_pdf
    /\ pdf_all_stages' = args.pdf_all_stages
    /\ keep_unpacked' = args.keep_unpacked
    /\ resize_factor' = args.resize_factor
    /\ jpeg_compression' = args.jpeg_compression
    /\ png_convert' = args.png_convert
    /\ pdf_suffix' = args.pdf_suffix
    /\ images_dict' = << >>
    /\ tiffies' = << >>
    /\ pngs' = << >>
    /\ all_yaml' = << >>
    /\ i' = 1
    /\ warnings' = [resize |-> 0, jpeg |-> 0]
    /\ reports' = EmptyDict
    /\ saves' = 0
    /\ calls' = << >>
    /\ visited' = {}

\* main() has called cli(), click has parsed the command line and the command
\* has made its first slim_file call.
Init ==
    \E in \in Inputs :
        /\ command = in.command
        /\ keynote = in.keynote
        /\ todo = Tail(in.todo)
        /\ pc = "slim_file"
        /\ quality = Head(in.todo).quality
        /\ export_pdf = Head(in.todo).export_pdf
        /\ pdf_all_stages = Head(in.todo).pdf_all_stages
        /\ keep_unpacked = Head(in.todo).keep_unpacked
        /\ resize_factor = Head(in.todo).resize_factor
        /\ jpeg_compression = Head(in.todo).jpeg_compression
        /\ png_convert = Head(in.todo).png_convert
        /\ pdf_suffix = Head(in.todo).pdf_suffix
        /\ images_dict = << >>
        /\ tiffies = << >>
        /\ pngs = << >>
        /\ all_yaml = << >>
        /\ i = 1
        /\ warnings = [resize |-> 0, jpeg |-> 0]
        /\ reports = EmptyDict
        /\ saves = 0
        /\ calls = << >>
        /\ visited = {}
        /\ files = [unpacked |-> FALSE, repacked |-> FALSE, pdfs |-> {}]
        /\ error = NoError

\* An exception leaves slim_file: nothing in cli.py catches it before main's
\* bare `except` (lines 378-399), which prints the crash panel; the command
\* makes no further call.
Raise(kind, id) ==
    /\ pc' = "crashed"
    /\ error' = [kind |-> kind, image |-> id]

\* ------------------------------------------------------------------ actions
\* Lines 37-84: the preset overwrites the settings, then the two warnings.
EnterSlimFile ==
    /\ pc = "slim_file"
    /\ LET set == Preset(quality,
                         [resize_factor |-> resize_factor,
                          jpeg_compression |-> jpeg_compression,
                          png_convert |-> png_convert,
                          export_pdf |-> export_pdf])
       IN  /\ resize_factor' = set.resize_factor
           /\ jpeg_compression' = set.jpeg_compression
           /\ png_convert' = set.png_convert
           /\ export_pdf' = set.export_pdf
           /\ warnings' =
                [resize |-> warnings.resize
                            + (IF ResizeWarning(set.resize_factor) THEN 1 ELSE 0),
                 jpeg |-> warnings.jpeg
                            + (IF JpegWarning(set.jpeg_compression) THEN 1 ELSE 0)]
    /\ pc' = "unpack"
    /\ UNCHANGED << input, todo, quality, pdf_all_stages, keep_unpacked,
                    pdf_suffix, images_dict, lists, i, reports, saves, calls,
                    visited, files, error >>

\* Lines 86-100: kf.unpack(), the image index, and the two lists.
Unpack ==
    /\ pc = "unpack"
    /\ images_dict' = ImagesDict(keynote)
    /\ tiffies' = Tiffies(images_dict')
    /\ pngs' = Pngs(images_dict')
    /\ calls' = [id \in DOMAIN images_dict' |-> << >>]
    /\ files' = [files EXCEPT !.unpacked = TRUE]
    /\ i' = 1
    /\ pc' = "tiff"
    /\ UNCHANGED << input, todo, locals, all_yaml, warnings, reports, saves,
                    visited, error >>

\* Lines 111-112: tiff.convert() on the next TIFF.
ConvertTiff ==
    /\ pc = "tiff"
    /\ i <= Len(tiffies)
    /\ \E encoded \in 1..MaxSize :
        images_dict' = [images_dict EXCEPT ![tiffies[i]] = Convert(@, encoded)]
    /\ calls' = [calls EXCEPT ![tiffies[i]] = Append(@, "convert")]
    /\ i' = i + 1
    /\ UNCHANGED << input, todo, pc, locals, lists, warnings, reports, saves,
                    visited, files, error >>

\* Lines 102-129 after the loop: the TIFF summary and metadata.save(), or the
\* "No TIFF files" line; then line 131 decides whether PNGs are converted.
TiffSummary ==
    /\ pc = "tiff"
    /\ i > Len(tiffies)
    /\ LET tot == TiffTotals(images_dict, tiffies)
           sum == Summarize(tot.before, tot.after)
       IN  IF tiffies # << >> /\ sum = << >>
           THEN /\ Raise("ZeroDivisionError", 0)
                /\ UNCHANGED << reports, saves, i >>
           ELSE /\ reports' = IF tiffies # << >>
                              THEN ("tiff" :> sum[1]) @@ reports ELSE reports
                /\ saves' = IF tiffies # << >> THEN saves + 1 ELSE saves
                /\ pc' = IF ConvertPngs(pngs, png_convert) THEN "png" ELSE "yaml"
                /\ i' = 1
                /\ UNCHANGED error
    /\ UNCHANGED << input, todo, locals, images_dict, lists, warnings, calls,
                    visited, files >>

\* Lines 141-142: png.convert(jpeg_compression=...) on the next PNG.
ConvertPng ==
    /\ pc = "png"
    /\ i <= Len(pngs)
    /\ \E encoded \in 1..MaxSize :
        images_dict' = [images_dict EXCEPT ![pngs[i]] = Convert(@, encoded)]
    /\ calls' = [calls EXCEPT ![pngs[i]] = Append(@, "convert")]
    /\ i' = i + 1
    /\ UNCHANGED << input, todo, pc, locals, lists, warnings, reports, saves,
                    visited, files, error >>

\* Lines 144-156: the PNG summary and metadata.save().
PngSummary ==
    /\ pc = "png"
    /\ i > Len(pngs)
    /\ LET tot == PngTotals(images_dict, pngs)
           sum == Summarize(tot.before, tot.after)
       IN  IF sum = << >>
           THEN /\ Raise("ZeroDivisionError", 0)
                /\ UNCHANGED << reports, saves, i >>
           ELSE /\ reports' = ("png" :> sum[1]) @@ reports
                /\ saves' = saves + 1
                /\ pc' = "yaml"
                /\ i' = 1
                /\ UNCHANGED error
    /\ UNCHANGED << input, todo, locals, images_dict, lists, warnings, calls,
                    visited, files >>

\* Lines 158-168: every file of the Index directory is loaded.
LoadYaml ==
    /\ pc = "yaml"
    /\ all_yaml' = keynote.yaml
    /\ i' = 1
    /\ pc' = IF ScanFinished(1, all_yaml') THEN "resize" ELSE "scan"
    /\ UNCHANGED << input, todo, locals, images_dict, tiffies, pngs, warnings,
                    reports, saves, calls, visited, files, error >>

\* Lines 169-191: one YAML file, all of its chunks, archives and objects.
ScanYamlFile ==
    /\ pc = "scan"
    /\ images_dict' = ScanYaml(images_dict, i, all_yaml[i].yaml)
    /\ visited' = visited \cup
            {<< i, p[1], p[2], p[3] >> :
                p \in {PathsFrom(all_yaml[i].yaml, 1, 1, 1)[k] :
                        k \in 1..Len(PathsFrom(all_yaml[i].yaml, 1, 1, 1))}}
    /\ pc' = IF ScanFinished(i + 1, all_yaml) THEN "resize" ELSE "scan"
    /\ i' = IF ScanFinished(i + 1, all_yaml) THEN 1 ELSE i + 1
    /\ UNCHANGED << input, todo, locals, lists, warnings, reports, saves, calls,
                    files, error >>

\* Lines 193-194: image.resize(max_ratio_factor=resize_factor) on the next
\* image.
ResizeImage ==
    /\ pc = "resize"
    /\ i <= Len(ResizeTargets(images_dict))
    /\ LET id == ResizeTargets(images_dict)[i]
       IN  /\ \E encoded \in 1..MaxSize :
                images_dict' =
                    [images_dict EXCEPT ![id] = Resize(@, resize_factor, encoded)]
           /\ calls' = [calls EXCEPT ![id] = Append(@, "resize")]
    /\ i' = i + 1
    /\ UNCHANGED << input, todo, pc, locals, lists, warnings, reports, saves,
                    visited, files, error >>

\* Lines 196-206: the resize summary.
ResizeSummary ==
    /\ pc = "resize"
    /\ i > Len(ResizeTargets(images_dict))
    /\ LET tot == ResizeTotals(images_dict)
           sum == Summarize(tot.before, tot.after)
       IN  IF sum = << >>
           THEN /\ Raise("ZeroDivisionError", 0)
                /\ UNCHANGED << reports, i >>
           ELSE /\ reports' = ("resize" :> sum[1]) @@ reports
                /\ pc' = "optimize"
                /\ i' = 1
                /\ UNCHANGED error
    /\ UNCHANGED << input, todo, locals, images_dict, lists, warnings, saves,
                    calls, visited, files >>

\* Lines 215-216: image.optimize(jpeg_compression=jpeg_compression) on the
\* next image.
OptimizeImage ==
    /\ pc = "optimize"
    /\ i <= Len(OptimizeTargets(images_dict))
    /\ LET id == OptimizeTargets(images_dict)[i]
       IN  /\ \E encoded \in 1..MaxSize :
                images_dict' =
                    [images_dict EXCEPT ![id] = Optimize(@, jpeg_compression, encoded)]
           /\ calls' = [calls EXCEPT ![id] = Append(@, "optimize")]
    /\ i' = i + 1
    /\ UNCHANGED << input, todo, pc, locals, lists, warnings, reports, saves,
                    visited, files, error >>

\* Lines 218-228: the optimize summary.
OptimizeSummary ==
    /\ pc = "optimize"
    /\ i > Len(OptimizeTargets(images_dict))
    /\ LET tot == OptimizeTotals(images_dict)
           sum == Summarize(tot.before, tot.after)
       IN  IF sum = << >>
           THEN /\ Raise("ZeroDivisionError", 0)
                /\ UNCHANGED << reports, i >>
           ELSE /\ reports' = ("optimize" :> sum[1]) @@ reports
                /\ pc' = "repack"
                /\ i' = 1
                /\ UNCHANGED error
    /\ UNCHANGED << input, todo, locals, images_dict, lists, warnings, saves,
                    calls, visited, files >>

\* The list the loop at `phase` runs over, and the stage it invokes.
Targets(phase) ==
    CASE phase = "tiff" -> tiffies
      [] phase = "png" -> pngs
      [] phase = "resize" -> ResizeTargets(images_dict)
      [] phase = "optimize" -> OptimizeTargets(images_dict)
      [] OTHER -> << >>
StageOf(phase) ==
    CASE phase \in {"tiff", "png"} -> "convert"
      [] phase = "resize" -> "resize"
      [] OTHER -> "optimize"

\* Lines 112, 142, 194, 216: the stage call on the next image raises. The
\* calls stand in no try block, so the exception leaves slim_file.
StageRaises ==
    /\ pc \in {"tiff", "png", "resize", "optimize"}
    /\ i <= Len(Targets(pc))
    /\ calls' = [calls EXCEPT ![Targets(pc)[i]] = Append(@, StageOf(pc))]
    /\ Raise("StageError", Targets(pc)[i])
    /\ UNCHANGED << input, todo, locals, images_dict, lists, i, warnings,
                    reports, saves, visited, files >>

\* Lines 230-244: kf.repack() and the closing size line.
Repack ==
    /\ pc = "repack"
    /\ files' = [files EXCEPT !.repacked = TRUE]
    /\ pc' = "cleanup"
    /\ UNCHANGED << input, todo, locals, images_dict, lists, i, warnings,
                    reports, saves, calls, visited, error >>

\* Lines 246-273: the unpacked directory is removed unless kept; with
\* export_pdf Keynote is scripted to export the PDF, and when the script
\* returns 0 the repacked file is removed.
Finish ==
    /\ pc = "cleanup"
    /\ \E code \in {0, 1} :
        files' =
            [unpacked |-> IF keep_unpacked THEN files.unpacked ELSE FALSE,
             repacked |-> IF export_pdf /\ code = 0 THEN FALSE ELSE files.repacked,
             pdfs |-> IF export_pdf /\ code = 0
                      THEN files.pdfs \cup
                            {[suffix |-> pdf_suffix, all_stages |-> pdf_all_stages]}
                      ELSE files.pdfs]
    /\ pc' = "returned"
    /\ UNCHANGED << input, todo, locals, images_dict, lists, i, warnings,
                    reports, saves, calls, visited, error >>

\* autopdf's next slim_file call (lines 361-366).
NextCall ==
    /\ pc = "returned"
    /\ todo # << >>
    /\ Call(Head(todo))
    /\ todo' = Tail(todo)
    /\ UNCHANGED << input, files, error >>

Next ==
    \/ EnterSlimFile
    \/ Unpack
    \/ ConvertTiff
    \/ TiffSummary
    \/ ConvertPng
    \/ PngSummary
    \/ LoadYaml
    \/ ScanYamlFile
    \/ ResizeImage
    \/ ResizeSummary
    \/ OptimizeImage
    \/ OptimizeSummary
    \/ StageRaises
    \/ Repack
    \/ Finish
    \/ NextCall

Spec == Init /\ [][Next]_vars

\* --------------------------------------------------- vocabulary of the claims
\* How far the current slim_file call has come; a crashed call has no rank.
Rank(p) ==
    CASE p = "slim_file" -> 0 [] p = "unpack" -> 1 [] p = "tiff" -> 2
      [] p = "png" -> 3 [] p = "yaml" -> 4 [] p = "scan" -> 5
      [] p = "resize" -> 6 [] p = "optimize" -> 7 [] p = "repack" -> 8
      [] p = "cleanup" -> 9 [] p = "returned" -> 10 [] OTHER -> -1

\* The three stage loops of the call have run to their end.
StagesDone == Rank(pc) >= 8
\* The image with this identifier was a TIFF / a PNG in the Keynote file.
WasTiff(id) == keynote.images[id].suffix = SuffixTiff
WasPng(id) == keynote.images[id].suffix = SuffixPng
IsPrefix(s, t) == Len(s) <= Len(t) /\ SubSeq(t, 1, Len(s)) = s
InCalls(stage, id) == \E k \in 1..Len(calls[id]) : calls[id][k] = stage
ResizeStarted == \E id \in DOMAIN calls : InCalls("resize", id)

\* Every object of the Keynote file's YAML, as <<file, chunk, archive, object>>.
AllObjects ==
    UNION {{<< f, PathsFrom(keynote.yaml[f].yaml, 1, 1, 1)[k][1],
               PathsFrom(keynote.yaml[f].yaml, 1, 1, 1)[k][2],
               PathsFrom(keynote.yaml[f].yaml, 1, 1, 1)[k][3] >> :
                k \in 1..Len(PathsFrom(keynote.yaml[f].yaml, 1, 1, 1))} :
           f \in 1..Len(keynote.yaml)}
TheObject(v) == ObjectAt(keynote.yaml[v[1]].yaml, << v[2], v[3], v[4] >>)

\* The identifiers an object names as a direct image reference and as a style
\* reference: none when a field on the way is missing.
SlideIds(object) ==
    IF /\ object["_pbtype"] = "TSD.ImageArchive"
       /\ "data" \in DOMAIN object
       /\ "identifier" \in DOMAIN object["data"]
    THEN {object["data"]["identifier"]} ELSE {}
StyleIds(object) ==
    IF /\ object["_pbtype"] = "KN.SlideStyleArchive"
       /\ "slideProperties" \in DOMAIN object
       /\ "fill" \in DOMAIN object["slideProperties"]
       /\ "image" \in DOMAIN object["slideProperties"]["fill"]
       /\ "imagedata" \in DOMAIN object["slideProperties"]["fill"]["image"]
       /\ "identifier" \in
            DOMAIN object["slideProperties"]["fill"]["image"]["imagedata"]
    THEN {object["slideProperties"]["fill"]["image"]["imagedata"]["identifier"]}
    ELSE {}
\* A style object whose slideProperties/fill is absent or has no "image".
NoImageFill(object) ==
    /\ object["_pbtype"] = "KN.SlideStyleArchive"
    /\ \/ "slideProperties" \notin DOMAIN object
       \/ "fill" \notin DOMAIN object["slideProperties"]
       \/ "image" \notin DOMAIN object["slideProperties"]["fill"]

\* The references some image holds to the object at v, as <<image, kind>>.
RefsTo(v) ==
    UNION {{<< id, ref.kind >> :
                ref \in {r \in images_dict[id].references :
                            r.file = v[1] /\ r.path = << v[2], v[3], v[4] >>}} :
           id \in DOMAIN images_dict}
References == [id \in DOMAIN images_dict |-> images_dict[id].references]

\* ------------------------------------------------------------------- claims

\* C1 (as claimed): a stage call that fails on one image of an index of at
\* least two does not abort the run: the other images are still processed and
\* the run goes on to repack.
C1_FailureDoesNotAbort ==
    (error.kind = "StageError" /\ Len(images_dict) >= 2) => pc # "crashed"

\* C2 (as claimed): no size summary raises on a 'before' total of zero: the
\* run goes on, and a summary with a zero 'before' total reports 0 %.
C2_ZeroTotalReportsZero ==
    /\ error.kind # "ZeroDivisionError"
    /\ \A s \in DOMAIN reports :
        reports[s].before = 0 => reports[s].reduction = 0

\* quality 0 and no explicit resize, compression or PNG-conversion request.
PresetZeroDefaults ==
    /\ quality = 0
    /\ resize_factor = 20
    /\ jpeg_compression = 85
    /\ ~png_convert

\* C3 (as claimed): under quality 0 with the default settings no stage is
\* invoked on a PNG image, all of its sizes stay its original size, and no
\* warning is emitted.
C3_PresetZeroInvokesNothing ==
    PresetZeroDefaults =>
        /\ warnings = [resize |-> 0, jpeg |-> 0]
        /\ \A id \in DOMAIN images_dict :
            WasPng(id) =>
                /\ calls[id] = << >>
                /\ images_dict[id].size_converted = images_dict[id].size_original
                /\ images_dict[id].size_resized = images_dict[id].size_original
                /\ images_dict[id].size_optimized = images_dict[id].size_original

\* C3 (amended): under quality 0 with the default settings convert is never
\* invoked on a PNG image, so it stays a PNG of its original converted size,
\* and no warning is emitted; resize and optimize are each invoked on it
\* once, in that order, by the time the stage loops are done.
C3_PresetZeroSkipsOnlyConvert ==
    PresetZeroDefaults =>
        /\ warnings = [resize |-> 0, jpeg |-> 0]
        /\ \A id \in DOMAIN images_dict :
            WasPng(id) =>
                /\ ~InCalls("convert", id)
                /\ images_dict[id].suffix = SuffixPng
                /\ images_dict[id].size_converted = images_dict[id].size_original
                /\ StagesDone => calls[id] = << "resize", "optimize" >>

\* C3 witness: a quality-0 default run has returned, and resize and optimize
\* ran on a PNG image and made it smaller.
C3_Witness ==
    /\ PresetZeroDefaults
    /\ pc = "returned"
    /\ \E id \in DOMAIN images_dict :
        /\ WasPng(id)
        /\ calls[id] = << "resize", "optimize" >>
        /\ images_dict[id].size_optimized < images_dict[id].size_original

\* C4: in every slim_file call the resize warning is logged exactly once if
\* the effective resize factor is below 2.0 and never otherwise, the
\* compression warning exactly once if the effective JPEG quality is below 80
\* and never otherwise, whatever the images; preset 1 logs none, preset 3 both.
C4_WarningsOncePerRun ==
    /\ pc = "slim_file" => warnings = [resize |-> 0, jpeg |-> 0]
    /\ pc # "slim_file" =>
        /\ warnings.resize = (IF resize_factor < 20 THEN 1 ELSE 0)
        /\ warnings.jpeg = (IF jpeg_compression < 80 THEN 1 ELSE 0)
        /\ quality = 1 => warnings = [resize |-> 0, jpeg |-> 0]
        /\ quality = 3 => warnings = [resize |-> 1, jpeg |-> 1]

\* C4 witness: a preset-3 call on a file with images has logged both warnings
\* once each and has returned.
C4_Witness ==
    /\ quality = 3
    /\ pc = "returned"
    /\ Len(images_dict) >= 2
    /\ warnings = [resize |-> 1, jpeg |-> 1]

\* C5: every reference an image holds comes from an object that names that
\* image's identifier, in the field of the reference's kind; an object that
\* names no identifier of the index (or none at all) is referenced by no image.
C5_DanglingIgnored ==
    /\ \A id \in DOMAIN images_dict :
        \A ref \in images_dict[id].references :
            LET object == ObjectAt(keynote.yaml[ref.file].yaml, ref.path)
            IN  id \in (IF ref.kind = "slide" THEN SlideIds(object)
                        ELSE StyleIds(object))
    /\ \A v \in visited :
        (SlideIds(TheObject(v)) \cup StyleIds(TheObject(v))) \cap DOMAIN images_dict = {}
            => RefsTo(v) = {}

\* C5 witness: the scan is over and has looked at an image object with no
\* identifier field and at an object that names an identifier outside the
\* index.
C5_Witness ==
    /\ Rank(pc) >= 6
    /\ \E v \in visited :
        /\ TheObject(v)["_pbtype"] = "TSD.ImageArchive"
        /\ SlideIds(TheObject(v)) = {}
    /\ \E v \in visited :
        /\ SlideIds(TheObject(v)) \cup StyleIds(TheObject(v)) # {}
        /\ (SlideIds(TheObject(v)) \cup StyleIds(TheObject(v)))
                \cap DOMAIN images_dict = {}

\* C6: a style object without an image fill is referenced by no image; a
\* style reference comes only from a style object with an image fill and a
\* slide reference only from an image object; no object is referenced twice.
C6_StyleWithoutImageFill ==
    \A v \in visited :
        /\ NoImageFill(TheObject(v)) => RefsTo(v) = {}
        /\ Cardinality(RefsTo(v)) <= 1
        /\ \A r \in RefsTo(v) :
            /\ r[2] = "slide" => TheObject(v)["_pbtype"] = "TSD.ImageArchive"
            /\ r[2] = "style" =>
                /\ TheObject(v)["_pbtype"] = "KN.SlideStyleArchive"
                /\ ~NoImageFill(TheObject(v))

\* C6 witness: the scan is over; it has looked at a style object whose fill
\* is not an image, and has attached a style reference for another object.
C6_Witness ==
    /\ Rank(pc) >= 6
    /\ \E v \in visited :
        /\ NoImageFill(TheObject(v))
        /\ "slideProperties" \in DOMAIN TheObject(v)
    /\ \E v \in visited : \E r \in RefsTo(v) : r[2] = "style"

\* C7: when the first resize call starts, the scan has looked at every object
\* of every YAML file, and from then on no reference of the call changes.
C7_ScanBeforeResize ==
    /\ [](ResizeStarted => visited = AllObjects)
    /\ [][(ResizeStarted /\ pc' # "slim_file") => References' = References]_vars

\* C7 witness: resize has started on a file with two YAML objects, one of
\* which gave an image a reference.
C7_Witness ==
    /\ ResizeStarted
    /\ Cardinality(visited) >= 2
    /\ \E id \in DOMAIN images_dict : images_dict[id].references # {}

\* C8: in every state the stages invoked on an image are a prefix of
\* [convert,] resize, optimize; once the stage loops are done every image,
\* referenced or not, has had resize once and optimize once.
C8_EveryRecordInStageOrder ==
    \A id \in DOMAIN calls :
        /\ \/ IsPrefix(calls[id], << "resize", "optimize" >>)
           \/ IsPrefix(calls[id], << "convert", "resize", "optimize" >>)
        /\ StagesDone =>
            calls[id] \in {<< "resize", "optimize" >>,
                           << "convert", "resize", "optimize" >>}

\* C8 witness: a call has returned in which an unreferenced image went
\* through resize and optimize and another went through all three stages.
C8_Witness ==
    /\ pc = "returned"
    /\ \E id \in DOMAIN images_dict :
        /\ images_dict[id].references = {}
        /\ calls[id] = << "resize", "optimize" >>
    /\ \E id \in DOMAIN images_dict :
        calls[id] = << "convert", "resize", "optimize" >>

\* C9: once the stage loops are done every image has
\* size_optimized <= size_resized <= size_converted <= size_original, an
\* image that was not converted has size_converted = size_original, and
\* every logged summary has total after <= total before.
C9_NonIncreasingLineage ==
    /\ StagesDone =>
        \A id \in DOMAIN images_dict :
            /\ images_dict[id].size_optimized <= images_dict[id].size_resized
            /\ images_dict[id].size_resized <= images_dict[id].size_converted
            /\ images_dict[id].size_converted <= images_dict[id].size_original
            /\ ~InCalls("convert", id) =>
                images_dict[id].size_converted = images_dict[id].size_original
    /\ \A s \in DOMAIN reports : reports[s].after <= reports[s].before

\* C9 witness: the stage loops are done; one image shrank at the resize stage
\* and another kept its size although it went through every stage.
C9_Witness ==
    /\ StagesDone
    /\ \E id \in DOMAIN images_dict :
        images_dict[id].size_resized < images_dict[id].size_converted
    /\ \E id \in DOMAIN images_dict :
        /\ InCalls("convert", id)
        /\ images_dict[id].size_optimized = images_dict[id].size_original
    /\ "optimize" \in DOMAIN reports

Settings ==
    [resize_factor |-> resize_factor, jpeg_compression |-> jpeg_compression,
     png_convert |-> png_convert, export_pdf |-> export_pdf]

\* C10: entering slim_file, quality 1, 2, 3 set (resize factor, JPEG quality,
\* PNG conversion, PDF export) to (2.0, 80, on, on), (1.5, 75, on, on),
\* (1.0, 70, on, on) whatever the caller passed, and any other quality leaves
\* them as passed; once the TIFF loop is over every TIFF has been converted,
\* and a PNG is converted exactly when the effective PNG flag is on.
C10_PresetLookup ==
    /\ [][pc = "slim_file" =>
            /\ quality = 1 =>
                Settings' = [resize_factor |-> 20, jpeg_compression |-> 80,
                             png_convert |-> TRUE, export_pdf |-> TRUE]
            /\ quality = 2 =>
                Settings' = [resize_factor |-> 15, jpeg_compression |-> 75,
                             png_convert |-> TRUE, export_pdf |-> TRUE]
            /\ quality = 3 =>
                Settings' = [resize_factor |-> 10, jpeg_compression |-> 70,
                             png_convert |-> TRUE, export_pdf |-> TRUE]
            /\ quality \notin 1..3 => Settings' = Settings]_vars
    /\ [](\A id \in DOMAIN images_dict :
            /\ (WasTiff(id) /\ Rank(pc) >= 3) => InCalls("convert", id)
            /\ (WasPng(id) /\ InCalls("convert", id)) => png_convert
            /\ (WasPng(id) /\ Rank(pc) >= 4 /\ png_convert)
                    => InCalls("convert", id))

\* C10 witness: a quality-2 call has returned with the settings of preset 2,
\* having converted a TIFF and a PNG.
C10_Witness ==
    /\ quality = 2
    /\ pc = "returned"
    /\ Settings = [resize_factor |-> 15, jpeg_compression |-> 75,
                   png_convert |-> TRUE, export_pdf |-> TRUE]
    /\ \E id \in DOMAIN images_dict : WasTiff(id) /\ InCalls("convert", id)
    /\ \E id \in DOMAIN images_dict : WasPng(id) /\ InCalls("convert", id)

====
